---- MODULE Spec2Model ----
(***************************************************************************)
(* incus-compose: the root command's pre-run step (cmd/root.go), which     *)
(* finalises the application model and builds the service dependency graph,*)
(* and the network batch operations CreateNetworks / DestroyNetworks       *)
(* (pkg/application/network.go).                                           *)
(*                                                                         *)
(* Service names are the numbers 1..MaxServices; the number 0 is a name    *)
(* that is not a service.  Network keys are 1..n with n <= MaxNetworks; the *)
(* networks of a project declare at most MaxExtensions extensions in all,  *)
(* and at most MaxFailures networks of a batch meet a failing call.        *)
(***************************************************************************)
EXTENDS Integers, Sequences, FiniteSets, TLC

MaxServices == 3
MaxDepends == 3
MaxNetworks == 2
MaxExtensions == 2
MaxFailures == 1

VARIABLES
    Services,      \* app.Services: the set of declared service names (map keys)
    DependsOn,     \* the declared <<service, dependency>> pairs (Services[name].DependsOn)
    Networks,      \* c.ComposeProject.Networks: key -> network definition
    viper,         \* resolved configuration: network.type, network.uplink
    app,           \* the application model: app.Network and app.Dag
    preRunErr,     \* what PersistentPreRunE returned
    cmd,           \* the subcommand that ran after the pre-run step
    calls,         \* the remote calls issued so far, in order, with their outcome
    retErr,        \* the error returned by the batch: the sequence of joined causes
    pc             \* start | exit | ready | returned | panicked

vars == <<Services, DependsOn, Networks, viper, app, preRunErr, cmd, calls, retErr, pc>>

(***************************************************************************)
(* Helpers                                                                 *)
(***************************************************************************)
Range(f) == {f[i] : i \in DOMAIN f}

\* every order in which a Go map (or set) S can be iterated
Perms(S) == {f \in [1..Cardinality(S) -> S] : \A i, j \in DOMAIN f : f[i] = f[j] => i = j}

ServiceNames == 1..MaxServices
DepNames == 0..MaxServices

NoDag == [set |-> FALSE]
NilErr == [kind |-> "nil"]

(***************************************************************************)
(* github.com/dominikbraun/graph, as used at cmd/root.go:159-167           *)
(***************************************************************************)
\* graph.Acyclic() with PreventCycles set as well: every AddEdge runs a cycle check
AcyclicPreventing == [IsDirected |-> TRUE, IsAcyclic |-> TRUE, PreventCycles |-> TRUE]

\* graph.Directed(), graph.Acyclic(): Acyclic marks the graph as acyclic; it does
\* not set PreventCycles, so AddEdge runs no cycle check
Traits == [IsDirected |-> TRUE, IsAcyclic |-> TRUE, PreventCycles |-> FALSE]

\* graph.New(graph.StringHash, graph.Directed(), graph.Acyclic())
NewGraph == [set |-> TRUE, traits |-> Traits, vertices |-> {}, edges |-> {}]

\* g.AddVertex(name); the error (vertex already exists) is discarded by the caller
AddVertex(g, name) == [g EXCEPT !.vertices = @ \cup {name}]

RECURSIVE ReachFrom(_, _)
\* the vertices reachable from the set `seen` along `edges`
ReachFrom(edges, seen) ==
    LET next == seen \cup {e[2] : e \in {d \in edges : d[1] \in seen}}
    IN IF next = seen THEN seen ELSE ReachFrom(edges, next)

\* graph.CreatesCycle: source = target, or source is reachable from target
CreatesCycle(g, source, target) ==
    source = target \/ source \in ReachFrom(g.edges, {target})

\* g.AddEdge(source, target): [g |-> the graph afterwards, err |-> the error]
AddEdge(g, source, target) ==
    IF source \notin g.vertices \/ target \notin g.vertices
    THEN [g |-> g, err |-> "ErrVertexNotFound"]
    ELSE IF <<source, target>> \in g.edges
    THEN [g |-> g, err |-> "ErrEdgeAlreadyExists"]
    ELSE IF g.traits.PreventCycles /\ CreatesCycle(g, source, target)
    THEN [g |-> g, err |-> "ErrEdgeCreatesCycle"]
    ELSE [g |-> [g EXCEPT !.edges = @ \cup {<<source, target>>}], err |-> "nil"]

(***************************************************************************)
(* cmd/root.go: PersistentPreRunE                                          *)
(***************************************************************************)
\* The orders in which the nested loops of root.go:163-167 can visit the declared
\* pairs: services in any map order, the dependencies of one service together.
EdgeOrders(deps) ==
    {o \in Perms(deps) :
        \A i, j, k \in DOMAIN o : (i < j /\ j < k /\ o[i][1] = o[k][1]) => o[j][1] = o[i][1]}

RECURSIVE AddVertices(_, _)
\* for name := range app.Services { _ = g.AddVertex(name) }
AddVertices(g, names) ==
    IF names = {} THEN g
    ELSE LET name == CHOOSE n \in names : TRUE
         IN AddVertices(AddVertex(g, name), names \ {name})

RECURSIVE AddEdges(_, _)
\* for name ... for _, dep := range DependsOn { _ = g.AddEdge(name, dep) }
AddEdges(g, order) ==
    IF order = <<>> THEN g
    ELSE AddEdges(AddEdge(g, Head(order)[1], Head(order)[2]).g, Tail(order))

\* root.go:159-175: the graph stored on app.Dag and the error returned
BuildDag(services, order) ==
    [Dag |-> AddEdges(AddVertices(NewGraph, services), order), err |-> NilErr]

PersistentPreRunE ==
    /\ pc = "start"
    /\ \E setupOk \in BOOLEAN, order \in EdgeOrders(DependsOn) :
         IF ~setupOk
         THEN /\ preRunErr' = [kind |-> "SetupError"]
              /\ pc' = "exit"
              /\ UNCHANGED app
         ELSE LET built == BuildDag(Services, order)
              IN /\ app' = [Network |-> [Type |-> viper.type, Uplink |-> viper.uplink],
                            Dag |-> built.Dag]
                 /\ preRunErr' = built.err
                 /\ pc' = "ready"
    /\ UNCHANGED <<Services, DependsOn, Networks, viper, cmd, calls, retErr>>

(***************************************************************************)
(* pkg/application/network.go                                              *)
(***************************************************************************)
\* an extension of a network definition: not declared, declared with a string
\* value, or declared with a value that does not decode into a string
Absent == [declared |-> FALSE, decodes |-> FALSE, val |-> ""]
Str(v) == [declared |-> TRUE, decodes |-> TRUE, val |-> v]
Undecodable == [declared |-> TRUE, decodes |-> FALSE, val |-> "<not a string>"]

\* network.Extensions.Get(name, &target): ok says the extension is declared, err
\* that its value could not be decoded; target is written on success only
ExtensionsGet(ext, target) ==
    IF ~ext.declared THEN [ok |-> FALSE, err |-> FALSE, target |-> target]
    ELSE IF ext.decodes THEN [ok |-> TRUE, err |-> FALSE, target |-> ext.val]
    ELSE [ok |-> TRUE, err |-> TRUE, target |-> target]

\* the override rule with the decode error not looked at
OverrideIgnoringErr(ext, default) ==
    LET got == ExtensionsGet(ext, "")
    IN IF ~got.ok THEN default ELSE got.target

\* network.go:18-27: var v string; if ok, err := Get(..., &v); !ok || err != nil { v = default }
Override(ext, default) ==
    LET got == ExtensionsGet(ext, "")
    IN IF ~got.ok \/ got.err THEN default ELSE got.target

\* a loop that skips no network
SkipsNone(network) == FALSE

\* network.go:15-17 and 74-76: if network.External { continue }
Skips(network) == network.External

\* network.go:36-44: the create-network request
NetworksPost(c, network) ==
    LET nettype == Override(network.XType, c.Network.Type)
        uplink == Override(network.XUplink, c.Network.Uplink)
    IN [Name |-> network.Name,
        Type |-> nettype,
        Config |-> IF nettype = "ovn" THEN [k \in {"network"} |-> uplink] ELSE <<>>]

\* c.ParseServers(name): the resolution succeeds with one handle, or fails; what
\* the returned slice holds beside the error is either nothing or a handle
ParseServersOutcomes == {"ok", "err_nil", "err_handle"}
RemoteOutcomes == {"ok", "err"}
Outcomes == [resolve : ParseServersOutcomes, remote : RemoteOutcomes]

\* what the remote side answers in one batch: an outcome for each network the
\* batch may call
Envs(networks) ==
    {env \in [DOMAIN networks -> Outcomes] :
        /\ \A k \in DOMAIN networks :
              (networks[k].External \/ env[k].resolve = "err_nil") => env[k].remote = "ok"
        /\ \A k \in DOMAIN networks : networks[k].External => env[k].resolve = "ok"
        /\ Cardinality({k \in DOMAIN networks :
                           env[k].resolve # "ok" \/ env[k].remote # "ok"}) <= MaxFailures}

ParseServersCall(key, outcome) ==
    [verb |-> "ParseServers", key |-> key, ok |-> outcome.resolve = "ok", req |-> <<>>]

RemoteCall(verb, key, req, outcome) ==
    [verb |-> verb, key |-> key, ok |-> outcome.remote = "ok", req |-> req]

Cause(kind, key) == [kind |-> kind, key |-> key]

RECURSIVE CreateLoop(_, _, _, _, _)
\* network.go:14-64: the loop of CreateNetworks over `order`, with the calls so far
CreateLoop(c, networks, order, env, log) ==
    IF order = <<>> THEN [calls |-> log, err |-> <<>>, end |-> "returned"]
    ELSE
      LET key == Head(order)
          network == networks[key]
      IN IF Skips(network) THEN CreateLoop(c, networks, Tail(order), env, log)
         ELSE
           LET apiNetwork == NetworksPost(c, network)
               log1 == Append(log, ParseServersCall(key, env[key]))
               log2 == Append(log1, RemoteCall("CreateNetwork", key, apiNetwork, env[key]))
           IN IF env[key].resolve # "ok"
              THEN [calls |-> log1, err |-> <<Cause("ResolutionError", key)>>,
                    end |-> "returned"]
              ELSE IF env[key].remote # "ok"
              THEN [calls |-> log2, err |-> <<Cause("RemoteOperationError", key)>>,
                    end |-> "returned"]
              ELSE CreateLoop(c, networks, Tail(order), env, log2)

RECURSIVE DestroyLoop(_, _, _, _, _)
\* network.go:73-94: the loop of DestroyNetworks, with the calls and funcError so far
DestroyLoop(networks, order, env, log, funcError) ==
    IF order = <<>> THEN [calls |-> log, err |-> funcError, end |-> "returned"]
    ELSE
      LET key == Head(order)
          network == networks[key]
      IN IF Skips(network) THEN DestroyLoop(networks, Tail(order), env, log, funcError)
         ELSE
           LET log1 == Append(log, ParseServersCall(key, env[key]))
               err1 == IF env[key].resolve # "ok"
                       THEN Append(funcError, Cause("ResolutionError", key))
                       ELSE funcError
               log2 == Append(log1, RemoteCall("DeleteNetwork", key, network.Name, env[key]))
               err2 == IF env[key].remote # "ok"
                       THEN Append(err1, Cause("RemoteOperationError", key))
                       ELSE err1
           IN IF env[key].resolve = "err_nil"
              \* resources[0] on an empty slice: index out of range
              THEN [calls |-> log1, err |-> err1, end |-> "panicked"]
              ELSE DestroyLoop(networks, Tail(order), env, log2, err2)

\* the `up` subcommand's call of app.CreateNetworks(), run after a pre-run step
\* that returned nil
CreateNetworks ==
    /\ pc = "ready"
    /\ \E order \in Perms(DOMAIN Networks), env \in Envs(Networks) :
         LET r == CreateLoop(app, Networks, order, env, <<>>)
         IN /\ calls' = r.calls
            /\ retErr' = r.err
            /\ pc' = r.end
    /\ cmd' = "up"
    /\ UNCHANGED <<Services, DependsOn, Networks, viper, app, preRunErr>>

\* the `down` subcommand's call of app.DestroyNetworks()
DestroyNetworks ==
    /\ pc = "ready"
    /\ \E order \in Perms(DOMAIN Networks), env \in Envs(Networks) :
         LET r == DestroyLoop(Networks, order, env, <<>>, <<>>)
         IN /\ calls' = r.calls
            /\ retErr' = IF r.end = "panicked" THEN <<>> ELSE r.err
            /\ pc' = r.end
    /\ cmd' = "down"
    /\ UNCHANGED <<Services, DependsOn, Networks, viper, app, preRunErr>>

Next == PersistentPreRunE \/ CreateNetworks \/ DestroyNetworks

(***************************************************************************)
(* Initial states                                                          *)
(***************************************************************************)
\* the declarations of at most MaxDepends depends_on entries
Declarations ==
    {{}} \cup {Range(f) : f \in UNION {[1..n -> ServiceNames \X DepNames] : n \in 1..MaxDepends}}

NetworkDefs ==
    {[Name |-> 0, External |-> TRUE, XType |-> Absent, XUplink |-> Absent]}
    \cup [Name : {0}, External : {FALSE},
          XType : {Absent, Str("ovn"), Str("bridge"), Undecodable},
          XUplink : {Absent, Str("up0"), Undecodable}]

Declared(network) ==
    (IF network.XType.declared THEN 1 ELSE 0) + (IF network.XUplink.declared THEN 1 ELSE 0)

RECURSIVE DeclaredUpTo(_, _)
DeclaredUpTo(f, n) == IF n = 0 THEN 0 ELSE Declared(f[n]) + DeclaredUpTo(f, n - 1)

\* the network maps with at most MaxNetworks entries, each named after its key
NetworkMaps ==
    UNION {{[k \in 1..n |-> [f[k] EXCEPT !.Name = k]] :
               f \in {g \in [1..n -> NetworkDefs] : DeclaredUpTo(g, n) <= MaxExtensions}}
              : n \in 0..MaxNetworks}

InitCommon ==
    /\ app = [Network |-> [Type |-> "", Uplink |-> ""], Dag |-> NoDag]
    /\ preRunErr = NilErr
    /\ cmd = "none"
    /\ calls = <<>>
    /\ retErr = <<>>
    /\ pc = "start"

\* any service declarations, one project of an external and an owned network
Init ==
    /\ Services = ServiceNames
    /\ DependsOn \in Declarations
    /\ Networks = [k \in 1..2 |-> [Name |-> k, External |-> (k = 1),
                                    XType |-> Absent, XUplink |-> Absent]]
    /\ viper = [type |-> "bridge", uplink |-> ""]
    /\ InitCommon

\* any networks and defaults, the services db <- api <- web
InitNet ==
    /\ Services = ServiceNames
    /\ DependsOn = {<<s, s - 1>> : s \in ServiceNames \ {1}}
    /\ Networks \in NetworkMaps
    /\ viper \in [type : {"bridge", "ovn"}, uplink : {"", "UPLINK"}]
    /\ InitCommon

Spec == Init /\ [][Next]_vars
SpecNet == InitNet /\ [][Next]_vars

(***************************************************************************)
(* Vocabulary of the properties                                            *)
(***************************************************************************)
NonExternal == {k \in DOMAIN Networks : ~Networks[k].External}
CallsOf(verb, k) == {i \in DOMAIN calls : calls[i].verb = verb /\ calls[i].key = k}
Failed == {i \in DOMAIN calls : ~calls[i].ok}
CauseOf(call) ==
    Cause(IF call.verb = "ParseServers" THEN "ResolutionError" ELSE "RemoteOperationError",
          call.key)
ResolutionFailed(k) == \E i \in CallsOf("ParseServers", k) : ~calls[i].ok
Ended == pc \in {"returned", "panicked"}
BatchVerb == IF cmd = "up" THEN "CreateNetwork" ELSE "DeleteNetwork"

\* the declared dependencies on a name that is not a service
UnknownDeps == {p \in DependsOn : p[2] \notin Services}
\* whether the pairs in `edges` hold a cycle
HasCycle(edges) == \E p \in edges : p[1] \in ReachFrom(edges, {p[2]})
\* the pre-run step got as far as the graph build
GraphBuilt == pc # "start" /\ preRunErr.kind # "SetupError"
\* the uplink a create-network request carries, if any
SentUplink(req) == {req.Config[k] : k \in DOMAIN req.Config}
CreateCalls == {i \in DOMAIN calls : calls[i].verb = "CreateNetwork"}

(***************************************************************************)
(* Properties                                                              *)
(***************************************************************************)
\* C1: when CreateNetworks has returned, every non-external network of the batch
\* was attempted (its endpoint resolution was at least started), and every failed
\* call is among the causes of the returned error.
C1_CreateContinuesAfterFailure ==
    (cmd = "up" /\ pc = "returned") =>
        /\ \A k \in NonExternal : CallsOf("ParseServers", k) # {}
        /\ \A i \in Failed : CauseOf(calls[i]) \in Range(retErr)

\* C2: when the declared dependencies hold a cycle, the pre-run step returns a
\* cycle error, no graph is stored on app.Dag and no remote call is issued.
C2_CycleAbortsRun ==
    (HasCycle(DependsOn) /\ GraphBuilt) =>
        /\ preRunErr.kind = "CycleError"
        /\ app.Dag = NoDag
        /\ calls = <<>>

\* C3: when a service declares a dependency on a name that is not a service, the
\* pre-run step returns an unknown-dependency error naming that service and the
\* missing name, and no remote call is issued.
C3_UnknownDependencyAbortsRun ==
    (UnknownDeps # {} /\ GraphBuilt) =>
        /\ preRunErr.kind = "UnknownDependencyError"
        /\ \E p \in UnknownDeps : preRunErr.service = p[1] /\ preRunErr.missing = p[2]
        /\ calls = <<>>

\* C4: no remote call (endpoint resolution, create-network, delete-network) is
\* ever issued for a network marked external.
C4_ExternalNeverCalled ==
    \A i \in DOMAIN calls : ~Networks[calls[i].key].External

\* C4 witness: a batch with an external network ended after calls on the other
\* networks, one of which failed.
C4_Witness ==
    /\ Ended
    /\ \E k \in DOMAIN Networks : Networks[k].External
    /\ Failed # {}

\* C5 as stated: in every create-network request the type (the uplink) is the
\* extension's value whenever the extension is declared, and the run-level
\* default when it is not; a request that carries no uplink counts as carrying
\* the empty uplink.
C5_ExtensionAlwaysWins ==
    \A i \in CreateCalls :
        LET n == Networks[calls[i].key]
            req == calls[i].req
        IN /\ req.Type = IF n.XType.declared THEN n.XType.val ELSE app.Network.Type
           /\ SentUplink(req) \cup {""} =
                  {IF n.XUplink.declared THEN n.XUplink.val ELSE app.Network.Uplink, ""}

\* C5 amended: in every create-network request the type is the x-incus-type
\* extension's value when the extension is declared and decodes as a string, and
\* the run-level default otherwise; the uplink is resolved by the same rule and is
\* carried (as config key "network") only when the resolved type is "ovn".
C5_OverridePrecedence ==
    \A i \in CreateCalls :
        LET n == Networks[calls[i].key]
            req == calls[i].req
            type == IF n.XType.declared /\ n.XType.decodes
                    THEN n.XType.val ELSE app.Network.Type
            uplink == IF n.XUplink.declared /\ n.XUplink.decodes
                      THEN n.XUplink.val ELSE app.Network.Uplink
        IN /\ req.Name = n.Name
           /\ req.Type = type
           /\ DOMAIN req.Config \subseteq {"network"}
           /\ SentUplink(req) = IF type = "ovn" THEN {uplink} ELSE {}

\* C5 witness: a create-network request for a network whose type extension does
\* not decode (the default "ovn" is used) and whose uplink extension is sent.
C5_Witness ==
    \E i \in CreateCalls :
        LET n == Networks[calls[i].key]
        IN /\ n.XType = Undecodable
           /\ n.XUplink = Str("up0")
           /\ calls[i].req.Type = "ovn"
           /\ SentUplink(calls[i].req) = {"up0"}

\* C6: when a batch returns, every non-external network has received exactly one
\* create-network (resp. delete-network) call, a network whose endpoint could not
\* be resolved apart, which has received at most one.
C6_ExactlyOneCallEach ==
    pc = "returned" =>
        \A k \in NonExternal :
            /\ Cardinality(CallsOf(BatchVerb, k)) <= 1
            /\ ~ResolutionFailed(k) => Cardinality(CallsOf(BatchVerb, k)) = 1

\* C7: when DestroyNetworks has ended it has not crashed, every non-external
\* network was attempted, and a network whose endpoint resolution failed has got
\* no delete-network call and its resolution error is in the returned error.
C7_ResolutionFailureIsolated ==
    (cmd = "down" /\ Ended) =>
        /\ pc # "panicked"
        /\ \A k \in NonExternal :
              /\ CallsOf("ParseServers", k) # {}
              /\ ResolutionFailed(k) =>
                    /\ CallsOf("DeleteNetwork", k) = {}
                    /\ Cause("ResolutionError", k) \in Range(retErr)

\* C8: when DestroyNetworks has ended, delete-network was attempted on every
\* non-external network, the returned error is empty exactly when no call failed,
\* and every failed call is among its causes.
C8_TearsDownEverything ==
    (cmd = "down" /\ Ended) =>
        /\ \A k \in NonExternal : CallsOf("DeleteNetwork", k) # {}
        /\ (retErr = <<>>) <=> (Failed = {})
        /\ \A i \in Failed : CauseOf(calls[i]) \in Range(retErr)

\* C9: the graph stored on app.Dag and the error returned by the pre-run step are
\* what the build yields for every other order of iterating the services and
\* their dependencies.
C9_BuildDeterministic ==
    pc = "ready" =>
        \A o \in EdgeOrders(DependsOn) :
            BuildDag(Services, o) = [Dag |-> app.Dag, err |-> preRunErr]

\* C9 witness: a graph was built from declarations that hold a cycle and an
\* unknown dependency and can be iterated in more than one order.
C9_Witness ==
    /\ pc = "ready"
    /\ HasCycle(DependsOn)
    /\ UnknownDeps # {}
    /\ Cardinality(EdgeOrders(DependsOn)) > 1

\* C10: the graph stored on app.Dag is acyclic, its vertices are the service
\* names, every edge is a declared dependency on an existing service, and when
\* the declarations are acyclic and name only services, every declared pair is
\* an edge.
C10_DagWellFormed ==
    app.Dag.set =>
        /\ ~HasCycle(app.Dag.edges)
        /\ app.Dag.vertices = Services
        /\ app.Dag.edges \subseteq (DependsOn \ UnknownDeps)
        /\ (~HasCycle(DependsOn) /\ UnknownDeps = {}) => app.Dag.edges = DependsOn

====
